---- MODULE Spec2Model ----
(***************************************************************************)
(* A model of the work-stealing thread pool of src/thread_pool.h and       *)
(* src/thread_pool.cpp.  Every step is one atomic access of the program:   *)
(* one load, store or read-modify-write of a std::atomic, or one critical  *)
(* section of a mutex.  Threads are the pool's workers (worker_thread) and *)
(* client threads that call the public interface.  The holder of every     *)
(* mutex is state; a critical section is one step, or two where the        *)
(* acquisition of the mutex is a step of its own (WorkerLock, ClientLock). *)
(*                                                                         *)
(* size_t counters are kept as integers; a negative value k stands for the *)
(* wrapped value 2^64 + k, so "x > 0" of the source is written "x # 0".    *)
(***************************************************************************)
EXTENDS Integers, Sequences, FiniteSets, TLC

\* ---- bounds of the model ----
NumWorkers == 2
NumClients == 2
MaxTasks == 2
MaxOther == 1        \* room in a static counter beyond this pool's own submissions

\* ---- enum class Priority ----
HIGH == 0
MEDIUM == 1
LOW == 2

Priorities == {HIGH, MEDIUM, LOW}
\* the instantiations of the member template submit<F, Args...>: one per type
\* of callable; each has its own function-local static counter (line 185)
Instantiations == {"F", "G"}
Workers == 0 .. (NumWorkers - 1)
Clients == 1 .. NumClients
TaskIds == 1 .. MaxTasks

VARIABLES
    \* ThreadPool members
    stop_, immediate_stop_,
    active_tasks_, pending_tasks_,
    tasks_completed_, tasks_stolen_, total_tasks_submitted_,
    global_queue_,      \* set of task ids in the priority_queue
    local_queues_,      \* [Workers -> Seq(task id)], front of the deque first
    counter,            \* [Instantiations -> Nat]: the static round-robin counter
                        \* of each instantiation of submit, shared by all pools
    joined,             \* [Workers -> BOOLEAN]: workers_[w] is no longer joinable
    locks,              \* [Mutexes -> thread]: the thread that holds global_mutex_,
                        \* wait_mutex_ and the mutex_ of each WorkStealingQueue
    \* tasks (envelopes)
    prio,               \* sequence: prio[t] is the priority of accepted task t
    runs,               \* [TaskIds -> Nat]: how often the user callable of t ran
    raises,             \* the accepted tasks whose user callable throws
    ftype,              \* [TaskIds -> Instantiations]: the instantiation of
                        \* submit that accepted t
    result,             \* [TaskIds -> "none" | "value" | "exception"]: the shared
                        \* state behind the std::future of t
    \* worker threads
    wpc, held, scan,
    \* client threads
    pc, cur, tgt, jidx, st,
    \* history (not program state)
    snap,               \* [Clients -> set of tasks]: when c's wait_all or shutdown call
                        \* began, the tasks whose submit had returned; when its
                        \* get_stats call began, the tasks whose result was ready
    pre,                \* [TaskIds -> set of tasks]: submits returned when submit(t) began
    atStop,             \* tasks queued when immediate_stop_ was set
    pollSeen,           \* [Workers -> set of tasks]: pushed to the heap before w's last poll
    polled,             \* [Workers -> record]: inside a get_task call, whether the
                        \* call found the heap, and then the own deque, empty
    steals,             \* the number of successful WorkStealingQueue::steal calls
    visited             \* [Workers -> set of deques]: inside a try_steal call, the
                        \* deques the scan has found empty

poolVars == <<stop_, immediate_stop_, active_tasks_, pending_tasks_,
              tasks_completed_, tasks_stolen_, total_tasks_submitted_,
              global_queue_, local_queues_, counter, joined>>
taskVars == <<prio, runs, raises, ftype, result>>
workerVars == <<wpc, held, scan>>
clientVars == <<pc, cur, tgt, jidx, st>>
histVars == <<snap, pre, atStop, pollSeen, polled, steals, visited>>
vars == <<poolVars, locks, taskVars, workerVars, clientVars, histVars>>

\* ---- helpers ----
Accepted == 1 .. Len(prio)
InSubmit == {cur[c] : c \in Clients} \ {0}
Returned == Accepted \ InSubmit
RECURSIVE SeqToSet(_)
SeqToSet(s) == IF s = <<>> THEN {} ELSE {Head(s)} \cup SeqToSet(Tail(s))
InLocal(w) == SeqToSet(local_queues_[w])
Queued == global_queue_ \cup UNION {InLocal(w) : w \in Workers}
EverPushedHigh == {t \in Accepted : prio[t] = HIGH /\ t \notin InSubmit}
NoStats == [completed |-> 0, stolen |-> 0, submitted |-> 0]
NotPolled == [heap |-> FALSE, own |-> FALSE]
\* the completion hook of t has finished (the envelope is destroyed)
Completed(t) == runs[t] >= 1 /\ \A w \in Workers : held[w] # t
\* a worker has invoked the envelope of t (worker_thread line 37)
Begun(t) == runs[t] >= 1 \/ \E w \in Workers : held[w] = t /\ wpc[w] # "stolen_inc"
\* t has left its queue in the hands of a worker
Dequeued(t) == runs[t] >= 1 \/ \E w \in Workers : held[w] = t

\* ---- threads and mutexes ----
WorkerThread(w) == <<"worker", w>>
ClientThread(c) == <<"client", c>>
NoThread == <<"none", 0>>
Threads == {WorkerThread(w) : w \in Workers} \cup {ClientThread(c) : c \in Clients}
GlobalMutex == <<"global_mutex_", 0>>
WaitMutex == <<"wait_mutex_", 0>>
DequeMutex(w) == <<"mutex_", w>>
NoMutex == <<"none", 0>>
Mutexes == {GlobalMutex, WaitMutex} \cup {DequeMutex(w) : w \in Workers}

\* std::mutex::lock as the first half of a critical section: m is free, or the
\* thread has acquired it in a step of its own
Acquirable(m, self) == locks[m] \in {NoThread, self}
\* the lock is taken (std::unique_lock that stays held) and released
\* (end of the scope of a lock_guard or unique_lock; condition_variable::wait)
Acquired(m, self) == [locks EXCEPT ![m] = self]
Released(m) == [locks EXCEPT ![m] = NoThread]
HeldMutexes(self) == {m \in Mutexes : locks[m] = self}

\* global_mutex_ is held across lines 47-58 of worker_thread by the worker that
\* evaluates the wait predicate or has returned from wait_for, and inside the
\* critical sections of get_task, submit and shutdown_immediate
GlobalMutexHeld == locks[GlobalMutex] # NoThread
\* wait_mutex_ is held by a wait_all caller between its predicate and its wait
WaitMutexHeld == locks[WaitMutex] # NoThread

\* global_cv_.notify_one(): the possible worker states afterwards
NotifyOne(p) ==
    IF \A w \in Workers : p[w] # "waiting" THEN {p}
    ELSE {[p EXCEPT ![w] = "woken"] : w \in {x \in Workers : p[x] = "waiting"}}
\* global_cv_.notify_all()
NotifyAll(p) == [w \in Workers |-> IF p[w] = "waiting" THEN "woken" ELSE p[w]]
\* wait_cv_.notify_all()
NotifyWaiters(p) == [c \in Clients |-> IF p[c] = "wa_waiting" THEN "wa_woken" ELSE p[c]]

\* std::priority_queue::top with PriorityTask::operator<: an element of the
\* smallest enum value; the order among equal priorities is left open
Top(q) == {t \in q : \A u \in q : prio[t] <= prio[u]}

\* the wait_for predicate of worker_thread, line 49
WaitPred == stop_ \/ immediate_stop_ \/ global_queue_ # {} \/ pending_tasks_ # 0

\* the scan order of try_steal for a drawn start index
\* (seeded fault) the scan of try_steal does not skip the thief's own index
RECURSIVE ScanOrder_OwnIncluded(_, _, _, _)
ScanOrder_OwnIncluded(n, w, start, i) ==
    IF i = n THEN <<>>
    ELSE <<(start + i) % n>> \o ScanOrder_OwnIncluded(n, w, start, i + 1)

RECURSIVE ScanOrder(_, _, _, _)
ScanOrder(n, w, start, i) ==
    IF i = n THEN <<>>
    ELSE LET target == (start + i) % n
         IN  IF target = w THEN ScanOrder(n, w, start, i + 1)
             ELSE <<target>> \o ScanOrder(n, w, start, i + 1)
ScanFrom(w, start, i) == ScanOrder(NumWorkers, w, start, i)

Init ==
    /\ stop_ = FALSE /\ immediate_stop_ = FALSE
    /\ active_tasks_ = 0 /\ pending_tasks_ = 0
    /\ tasks_completed_ = 0 /\ tasks_stolen_ = 0 /\ total_tasks_submitted_ = 0
    /\ global_queue_ = {}
    /\ local_queues_ = [w \in Workers |-> <<>>]
    /\ counter = [F \in Instantiations |-> 0]
    /\ joined = [w \in Workers |-> FALSE]
    /\ locks = [m \in Mutexes |-> NoThread]
    /\ prio = <<>>
    /\ runs = [t \in TaskIds |-> 0]
    /\ raises = {}
    /\ ftype = [t \in TaskIds |-> "F"]
    /\ result = [t \in TaskIds |-> "none"]
    /\ wpc = [w \in Workers |-> "get_global"]
    /\ held = [w \in Workers |-> 0]
    /\ scan = [w \in Workers |-> <<>>]
    /\ pc = [c \in Clients |-> "idle"]
    /\ cur = [c \in Clients |-> 0]
    /\ tgt = [c \in Clients |-> 0]
    /\ jidx = [c \in Clients |-> 0]
    /\ st = [c \in Clients |-> NoStats]
    /\ snap = [c \in Clients |-> {}]
    /\ pre = [t \in TaskIds |-> {}]
    /\ atStop = {}
    /\ pollSeen = [w \in Workers |-> {}]
    /\ polled = [w \in Workers |-> NotPolled]
    /\ steals = 0
    /\ visited = [w \in Workers |-> {}]

\* ======================= worker_thread =======================

\* (seeded fault) get_task leaves the heap alone while the own deque has work
GetGlobal_LocalFirst(w) ==
    /\ wpc[w] = "get_global"
    /\ Acquirable(GlobalMutex, WorkerThread(w))
    /\ locks' = Released(GlobalMutex)
    /\ pollSeen' = [pollSeen EXCEPT ![w] = EverPushedHigh]
    /\ polled' = [polled EXCEPT ![w] = [heap |-> global_queue_ = {}, own |-> FALSE]]
    /\ IF global_queue_ # {} /\ local_queues_[w] = <<>>
       THEN \E t \in Top(global_queue_) :
              /\ global_queue_' = global_queue_ \ {t}
              /\ held' = [held EXCEPT ![w] = t]
              /\ wpc' = [wpc EXCEPT ![w] = "exec"]
       ELSE /\ wpc' = [wpc EXCEPT ![w] = "get_local"]
            /\ UNCHANGED <<global_queue_, held>>
    /\ UNCHANGED <<stop_, immediate_stop_, active_tasks_, pending_tasks_,
                   tasks_completed_, tasks_stolen_, total_tasks_submitted_,
                   local_queues_, counter, joined, taskVars, scan, clientVars,
                   snap, pre, atStop, steals, visited>>

\* get_task, lines 64-71: poll the global heap under global_mutex_
GetGlobal(w) ==
    /\ wpc[w] = "get_global"
    /\ Acquirable(GlobalMutex, WorkerThread(w))
    /\ locks' = Released(GlobalMutex)
    /\ pollSeen' = [pollSeen EXCEPT ![w] = EverPushedHigh]
    /\ polled' = [polled EXCEPT ![w] = [heap |-> global_queue_ = {}, own |-> FALSE]]
    /\ IF global_queue_ # {}
       THEN \E t \in Top(global_queue_) :
              /\ global_queue_' = global_queue_ \ {t}
              /\ held' = [held EXCEPT ![w] = t]
              /\ wpc' = [wpc EXCEPT ![w] = "exec"]
       ELSE /\ wpc' = [wpc EXCEPT ![w] = "get_local"]
            /\ UNCHANGED <<global_queue_, held>>
    /\ UNCHANGED <<stop_, immediate_stop_, active_tasks_, pending_tasks_,
                   tasks_completed_, tasks_stolen_, total_tasks_submitted_,
                   local_queues_, counter, joined, taskVars, scan, clientVars,
                   snap, pre, atStop, steals, visited>>

\* (seeded fault) get_task tries to steal without looking at the own deque
PopLocal_StealFirst(w) ==
    /\ wpc[w] = "get_local"
    /\ wpc' = [wpc EXCEPT ![w] = "try_steal"]
    /\ polled' = [polled EXCEPT ![w].own = (local_queues_[w] = <<>>)]
    /\ UNCHANGED <<poolVars, taskVars, held, scan, clientVars,
                   snap, pre, atStop, pollSeen, steals, visited>>
    /\ UNCHANGED locks

\* get_task, lines 73-75: WorkStealingQueue::pop on the own deque
PopLocal(w) ==
    /\ wpc[w] = "get_local"
    /\ Acquirable(DequeMutex(w), WorkerThread(w))
    /\ locks' = Released(DequeMutex(w))
    /\ IF local_queues_[w] # <<>>
       THEN /\ held' = [held EXCEPT ![w] = Head(local_queues_[w])]
            /\ local_queues_' = [local_queues_ EXCEPT ![w] = Tail(@)]
            /\ wpc' = [wpc EXCEPT ![w] = "exec"]
            /\ polled' = [polled EXCEPT ![w] = NotPolled]
       ELSE /\ wpc' = [wpc EXCEPT ![w] = "try_steal"]
            /\ polled' = [polled EXCEPT ![w].own = TRUE]
            /\ UNCHANGED <<held, local_queues_>>
    /\ UNCHANGED <<stop_, immediate_stop_, active_tasks_, pending_tasks_,
                   tasks_completed_, tasks_stolen_, total_tasks_submitted_,
                   global_queue_, counter, joined, taskVars, scan, clientVars,
                   snap, pre, atStop, pollSeen, steals, visited>>

\* try_steal, lines 86-93: one worker never steals; else draw the start index
TryStealStart(w) ==
    /\ wpc[w] = "try_steal"
    /\ IF NumWorkers = 1
       THEN /\ wpc' = [wpc EXCEPT ![w] = "chk_imm1"]
            /\ polled' = [polled EXCEPT ![w] = NotPolled]
            /\ UNCHANGED scan
       ELSE \E start \in 0 .. (NumWorkers - 1) :
              /\ scan' = [scan EXCEPT ![w] = ScanFrom(w, start, 0)]
              /\ wpc' = [wpc EXCEPT ![w] = "stealing"]
              /\ UNCHANGED polled
    /\ UNCHANGED <<poolVars, taskVars, held, clientVars, snap, pre, atStop, pollSeen,
                   steals, visited>>
    /\ UNCHANGED locks

\* (seeded fault) steal hands out the envelope at the back of the deque and
\* leaves it there
Steal_Copies(w) ==
    /\ wpc[w] = "stealing"
    /\ Acquirable(DequeMutex(Head(scan[w])), WorkerThread(w))
    /\ locks' = Released(DequeMutex(Head(scan[w])))
    /\ LET target == Head(scan[w])
       IN  IF local_queues_[target] # <<>>
           THEN /\ held' = [held EXCEPT ![w] =
                              local_queues_[target][Len(local_queues_[target])]]
                /\ scan' = [scan EXCEPT ![w] = <<>>]
                /\ wpc' = [wpc EXCEPT ![w] = "stolen_inc"]
                /\ polled' = [polled EXCEPT ![w] = NotPolled]
                /\ steals' = steals + 1
                /\ visited' = [visited EXCEPT ![w] = {}]
           ELSE /\ scan' = [scan EXCEPT ![w] = Tail(@)]
                /\ wpc' = [wpc EXCEPT ![w] =
                             IF Tail(scan[w]) = <<>> THEN "chk_imm1" ELSE "stealing"]
                /\ polled' = [polled EXCEPT ![w] =
                                IF Tail(scan[w]) = <<>> THEN NotPolled ELSE @]
                /\ visited' = [visited EXCEPT ![w] =
                                 IF Tail(scan[w]) = <<>> THEN {} ELSE @ \cup {target}]
                /\ UNCHANGED steals
                /\ UNCHANGED held
    /\ UNCHANGED <<poolVars, taskVars, clientVars, snap, pre, atStop, pollSeen>>

\* (seeded fault) a successful steal returns without unlocking the victim's
\* mutex_
Steal_HoldsLock(w) ==
    /\ wpc[w] = "stealing"
    /\ Acquirable(DequeMutex(Head(scan[w])), WorkerThread(w))
    /\ LET target == Head(scan[w])
       IN  IF local_queues_[target] # <<>>
           THEN /\ held' = [held EXCEPT ![w] =
                              local_queues_[target][Len(local_queues_[target])]]
                /\ local_queues_' = [local_queues_ EXCEPT ![target] =
                                       SubSeq(@, 1, Len(@) - 1)]
                /\ locks' = Acquired(DequeMutex(target), WorkerThread(w))
                /\ scan' = [scan EXCEPT ![w] = <<>>]
                /\ wpc' = [wpc EXCEPT ![w] = "stolen_inc"]
                /\ polled' = [polled EXCEPT ![w] = NotPolled]
                /\ steals' = steals + 1
                /\ visited' = [visited EXCEPT ![w] = {}]
           ELSE /\ scan' = [scan EXCEPT ![w] = Tail(@)]
                /\ locks' = Released(DequeMutex(target))
                /\ wpc' = [wpc EXCEPT ![w] =
                             IF Tail(scan[w]) = <<>> THEN "chk_imm1" ELSE "stealing"]
                /\ polled' = [polled EXCEPT ![w] =
                                IF Tail(scan[w]) = <<>> THEN NotPolled ELSE @]
                /\ visited' = [visited EXCEPT ![w] =
                                 IF Tail(scan[w]) = <<>> THEN {} ELSE @ \cup {target}]
                /\ UNCHANGED steals
                /\ UNCHANGED <<held, local_queues_>>
    /\ UNCHANGED <<stop_, immediate_stop_, active_tasks_, pending_tasks_,
                   tasks_completed_, tasks_stolen_, total_tasks_submitted_,
                   global_queue_, counter, joined, taskVars, clientVars,
                   snap, pre, atStop, pollSeen>>

\* try_steal, lines 95-107: WorkStealingQueue::steal on the next target
Steal(w) ==
    /\ wpc[w] = "stealing"
    /\ Acquirable(DequeMutex(Head(scan[w])), WorkerThread(w))
    /\ locks' = Released(DequeMutex(Head(scan[w])))
    /\ LET target == Head(scan[w])
       IN  IF local_queues_[target] # <<>>
           THEN /\ held' = [held EXCEPT ![w] =
                              local_queues_[target][Len(local_queues_[target])]]
                /\ local_queues_' = [local_queues_ EXCEPT ![target] =
                                       SubSeq(@, 1, Len(@) - 1)]
                /\ scan' = [scan EXCEPT ![w] = <<>>]
                /\ wpc' = [wpc EXCEPT ![w] = "stolen_inc"]
                /\ polled' = [polled EXCEPT ![w] = NotPolled]
                /\ steals' = steals + 1
                /\ visited' = [visited EXCEPT ![w] = {}]
           ELSE /\ scan' = [scan EXCEPT ![w] = Tail(@)]
                /\ wpc' = [wpc EXCEPT ![w] =
                             IF Tail(scan[w]) = <<>> THEN "chk_imm1" ELSE "stealing"]
                /\ polled' = [polled EXCEPT ![w] =
                                IF Tail(scan[w]) = <<>> THEN NotPolled ELSE @]
                /\ visited' = [visited EXCEPT ![w] =
                                 IF Tail(scan[w]) = <<>> THEN {} ELSE @ \cup {target}]
                /\ UNCHANGED steals
                /\ UNCHANGED <<held, local_queues_>>
    /\ UNCHANGED <<stop_, immediate_stop_, active_tasks_, pending_tasks_,
                   tasks_completed_, tasks_stolen_, total_tasks_submitted_,
                   global_queue_, counter, joined, taskVars, clientVars,
                   snap, pre, atStop, pollSeen>>

\* get_task, line 78
StolenInc(w) ==
    /\ wpc[w] = "stolen_inc"
    /\ tasks_stolen_' = tasks_stolen_ + 1
    /\ wpc' = [wpc EXCEPT ![w] = "exec"]
    /\ UNCHANGED <<stop_, immediate_stop_, active_tasks_, pending_tasks_,
                   tasks_completed_, total_tasks_submitted_, global_queue_,
                   local_queues_, counter, joined, taskVars, held, scan,
                   clientVars, histVars>>
    /\ UNCHANGED locks

\* (seeded fault) the envelope calls the user callable directly: an exception
\* leaves the envelope and ends the worker thread
Exec_Unwinds(w) ==
    /\ wpc[w] = "exec"
    /\ runs' = [runs EXCEPT ![held[w]] = @ + 1]
    /\ IF held[w] \in raises
       THEN /\ wpc' = [wpc EXCEPT ![w] = "exited"]
            /\ UNCHANGED result
       ELSE /\ wpc' = [wpc EXCEPT ![w] = "dec_active"]
            /\ result' = [result EXCEPT ![held[w]] = "value"]
    /\ UNCHANGED <<poolVars, prio, raises, ftype, held, scan, clientVars, histVars>>
    /\ UNCHANGED locks

\* worker_thread line 37 and wrapped_task lines 166-169: the user callable runs
\* inside std::packaged_task::operator(), which stores its value or the
\* exception it throws in the shared state and makes the result handle ready;
\* nothing is thrown into the envelope, which goes on at line 170
Exec(w) ==
    /\ wpc[w] = "exec"
    /\ runs' = [runs EXCEPT ![held[w]] = @ + 1]
    /\ result' = [result EXCEPT ![held[w]] =
                    IF held[w] \in raises THEN "exception" ELSE "value"]
    /\ wpc' = [wpc EXCEPT ![w] = "dec_active"]
    /\ UNCHANGED <<poolVars, prio, raises, ftype, held, scan, clientVars, histVars>>
    /\ UNCHANGED locks

\* wrapped_task, line 170
DecActive(w) ==
    /\ wpc[w] = "dec_active"
    /\ active_tasks_' = active_tasks_ - 1
    /\ wpc' = [wpc EXCEPT ![w] = "dec_pending"]
    /\ UNCHANGED <<stop_, immediate_stop_, pending_tasks_, tasks_completed_,
                   tasks_stolen_, total_tasks_submitted_, global_queue_,
                   local_queues_, counter, joined, taskVars, held, scan,
                   clientVars, histVars>>
    /\ UNCHANGED locks

\* wrapped_task, line 171
DecPending(w) ==
    /\ wpc[w] = "dec_pending"
    /\ pending_tasks_' = pending_tasks_ - 1
    /\ wpc' = [wpc EXCEPT ![w] = "inc_completed"]
    /\ UNCHANGED <<stop_, immediate_stop_, active_tasks_, tasks_completed_,
                   tasks_stolen_, total_tasks_submitted_, global_queue_,
                   local_queues_, counter, joined, taskVars, held, scan,
                   clientVars, histVars>>
    /\ UNCHANGED locks

\* wrapped_task, line 172
IncCompleted(w) ==
    /\ wpc[w] = "inc_completed"
    /\ tasks_completed_' = tasks_completed_ + 1
    /\ wpc' = [wpc EXCEPT ![w] = "notify_wait"]
    /\ UNCHANGED <<stop_, immediate_stop_, active_tasks_, pending_tasks_,
                   tasks_stolen_, total_tasks_submitted_, global_queue_,
                   local_queues_, counter, joined, taskVars, held, scan,
                   clientVars, histVars>>
    /\ UNCHANGED locks

\* wrapped_task, line 173: wait_cv_.notify_all() without wait_mutex_; the
\* envelope is destroyed and the loop of worker_thread starts over
NotifyWait(w) ==
    /\ wpc[w] = "notify_wait"
    /\ pc' = NotifyWaiters(pc)
    /\ held' = [held EXCEPT ![w] = 0]
    /\ wpc' = [wpc EXCEPT ![w] = "get_global"]
    /\ UNCHANGED <<poolVars, taskVars, scan, cur, tgt, jidx, st, histVars>>
    /\ UNCHANGED locks

\* worker_thread, lines 39-41
ChkImm1(w) ==
    /\ wpc[w] = "chk_imm1"
    /\ wpc' = [wpc EXCEPT ![w] = IF immediate_stop_ THEN "exited" ELSE "chk_stop1"]
    /\ UNCHANGED <<poolVars, taskVars, held, scan, clientVars, histVars>>
    /\ UNCHANGED locks

\* (seeded fault) the worker leaves on stop_ without looking at pending_tasks_
ChkStop1_IgnorePending(w) ==
    /\ wpc[w] = "chk_stop1"
    /\ wpc' = [wpc EXCEPT ![w] = IF stop_ THEN "exited" ELSE "park"]
    /\ UNCHANGED <<poolVars, taskVars, held, scan, clientVars, histVars>>
    /\ UNCHANGED locks

\* worker_thread, lines 43-45
ChkStop1(w) ==
    /\ wpc[w] = "chk_stop1"
    /\ wpc' = [wpc EXCEPT ![w] =
                 IF stop_ /\ pending_tasks_ = 0 THEN "exited" ELSE "park"]
    /\ UNCHANGED <<poolVars, taskVars, held, scan, clientVars, histVars>>
    /\ UNCHANGED locks

\* worker_thread, lines 47-50: lock global_mutex_ and evaluate the predicate of
\* wait_for; the lock stays held
Park(w) ==
    /\ wpc[w] = "park"
    /\ Acquirable(GlobalMutex, WorkerThread(w))
    /\ locks' = Acquired(GlobalMutex, WorkerThread(w))
    /\ wpc' = [wpc EXCEPT ![w] = IF WaitPred THEN "chk_imm2" ELSE "towait"]
    /\ UNCHANGED <<poolVars, taskVars, held, scan, clientVars, histVars>>

\* wait_for: the predicate was false; release global_mutex_ and block
EnterWait(w) ==
    /\ wpc[w] = "towait"
    /\ wpc' = [wpc EXCEPT ![w] = "waiting"]
    /\ locks' = Released(GlobalMutex)
    /\ UNCHANGED <<poolVars, taskVars, held, scan, clientVars, histVars>>

\* wait_for: the 10 ms expire (or the wait ends spuriously)
WaitTimeout(w) ==
    /\ wpc[w] = "waiting"
    /\ wpc' = [wpc EXCEPT ![w] = "woken"]
    /\ UNCHANGED <<poolVars, taskVars, held, scan, clientVars, histVars>>
    /\ UNCHANGED locks

\* wait_for: reacquire global_mutex_; return when the predicate holds or the
\* deadline has passed, else wait again
Reacquire(w) ==
    /\ wpc[w] = "woken"
    /\ Acquirable(GlobalMutex, WorkerThread(w))
    /\ locks' = Acquired(GlobalMutex, WorkerThread(w))
    /\ \/ wpc' = [wpc EXCEPT ![w] = "chk_imm2"]
       \/ /\ ~WaitPred
          /\ wpc' = [wpc EXCEPT ![w] = "towait"]
    /\ UNCHANGED <<poolVars, taskVars, held, scan, clientVars, histVars>>

\* worker_thread, lines 52-54 (global_mutex_ held; the break releases it)
ChkImm2(w) ==
    /\ wpc[w] = "chk_imm2"
    /\ locks' = IF immediate_stop_ THEN Released(GlobalMutex) ELSE locks
    /\ wpc' = [wpc EXCEPT ![w] = IF immediate_stop_ THEN "exited" ELSE "chk_stop2"]
    /\ UNCHANGED <<poolVars, taskVars, held, scan, clientVars, histVars>>

\* (seeded fault) after its wait the worker waits again instead of polling
ChkStop2_NoRepoll(w) ==
    /\ wpc[w] = "chk_stop2"
    /\ locks' = Released(GlobalMutex)
    /\ wpc' = [wpc EXCEPT ![w] =
                 IF stop_ /\ pending_tasks_ = 0 THEN "exited" ELSE "park"]
    /\ UNCHANGED <<poolVars, taskVars, held, scan, clientVars, histVars>>

\* worker_thread, lines 56-59 (global_mutex_ released at the end of the block)
ChkStop2(w) ==
    /\ wpc[w] = "chk_stop2"
    /\ locks' = Released(GlobalMutex)
    /\ wpc' = [wpc EXCEPT ![w] =
                 IF stop_ /\ pending_tasks_ = 0 THEN "exited" ELSE "get_global"]
    /\ UNCHANGED <<poolVars, taskVars, held, scan, clientVars, histVars>>

\* the mutex that the next step of worker w locks: global_mutex_ in get_task
\* (line 65) and worker_thread (line 47, and inside wait_for), the own mutex_
\* in pop, the victim's mutex_ in steal
WorkerWants(w) ==
    CASE wpc[w] \in {"get_global", "park", "woken"} -> GlobalMutex
      [] wpc[w] = "get_local" -> DequeMutex(w)
      [] wpc[w] = "stealing" -> DequeMutex(Head(scan[w]))
      [] OTHER -> NoMutex

\* std::mutex::lock returns in worker w: the critical section has begun
WorkerLock(w) ==
    /\ WorkerWants(w) # NoMutex
    /\ locks[WorkerWants(w)] = NoThread
    /\ locks' = Acquired(WorkerWants(w), WorkerThread(w))
    /\ UNCHANGED <<poolVars, taskVars, workerVars, clientVars, histVars>>

WorkerStep(w) ==
    \/ GetGlobal(w) \/ PopLocal(w) \/ TryStealStart(w) \/ Steal(w) \/ StolenInc(w)
    \/ Exec(w) \/ DecActive(w) \/ DecPending(w) \/ IncCompleted(w) \/ NotifyWait(w)
    \/ ChkImm1(w) \/ ChkStop1(w) \/ Park(w) \/ EnterWait(w) \/ WaitTimeout(w)
    \/ Reacquire(w) \/ ChkImm2(w) \/ ChkStop2(w)

\* ======================= ThreadPool::submit =======================

\* (seeded fault) submit looks at immediate_stop_ only
SubmitCheck_ImmediateOnly(c, p) ==
    /\ pc[c] = "idle"
    /\ IF immediate_stop_
       THEN /\ pc' = [pc EXCEPT ![c] = "s_threw"]
            /\ UNCHANGED <<prio, cur, pre>>
       ELSE /\ Len(prio) < MaxTasks
            /\ prio' = Append(prio, p)
            /\ cur' = [cur EXCEPT ![c] = Len(prio) + 1]
            /\ pre' = [pre EXCEPT ![Len(prio) + 1] = Returned]
            /\ pc' = [pc EXCEPT ![c] = "s_active"]
    /\ UNCHANGED <<poolVars, runs, raises, ftype, result, workerVars, tgt, jidx,
                   st, snap, atStop, pollSeen, polled, steals, visited>>
    /\ UNCHANGED locks

\* submit<F>, lines 155-163: throw when a flag is set, else build the envelope
\* around the user callable, which is of type F and returns or throws when run
SubmitCall(c, p, F, throws) ==
    /\ pc[c] = "idle"
    /\ IF stop_ \/ immediate_stop_
       THEN /\ pc' = [pc EXCEPT ![c] = "s_threw"]
            /\ UNCHANGED <<prio, raises, ftype, cur, pre>>
       ELSE /\ Len(prio) < MaxTasks
            /\ prio' = Append(prio, p)
            /\ raises' = IF throws THEN raises \cup {Len(prio) + 1} ELSE raises
            /\ ftype' = [ftype EXCEPT ![Len(prio) + 1] = F]
            /\ cur' = [cur EXCEPT ![c] = Len(prio) + 1]
            /\ pre' = [pre EXCEPT ![Len(prio) + 1] = Returned]
            /\ pc' = [pc EXCEPT ![c] = "s_active"]
    /\ UNCHANGED <<poolVars, runs, result, workerVars, tgt, jidx, st,
                   snap, atStop, pollSeen, polled, steals, visited>>
    /\ UNCHANGED locks

\* submit of a callable of the usual type that returns a value
SubmitCheck(c, p) == SubmitCall(c, p, "F", FALSE)

\* submit of a callable of the same type that throws when it is run
SubmitCheckThrowing(c, p) == SubmitCall(c, p, "F", TRUE)

\* submit of a callable of another type (another lambda expression)
SubmitCheckOther(c, p) == SubmitCall(c, p, "G", FALSE)

\* submit, line 176
SubmitIncActive(c) ==
    /\ pc[c] = "s_active"
    /\ active_tasks_' = active_tasks_ + 1
    /\ pc' = [pc EXCEPT ![c] = "s_pending"]
    /\ UNCHANGED <<stop_, immediate_stop_, pending_tasks_, tasks_completed_,
                   tasks_stolen_, total_tasks_submitted_, global_queue_,
                   local_queues_, counter, joined, taskVars, workerVars,
                   cur, tgt, jidx, st, histVars>>
    /\ UNCHANGED locks

\* (seeded fault) submit pushes without having counted the task in pending
SubmitIncPending_Skipped(c) ==
    /\ pc[c] = "s_pending"
    /\ pc' = [pc EXCEPT ![c] = "s_submitted"]
    /\ UNCHANGED <<poolVars, taskVars, workerVars, cur, tgt, jidx, st, histVars>>
    /\ UNCHANGED locks

\* submit, line 177
SubmitIncPending(c) ==
    /\ pc[c] = "s_pending"
    /\ pending_tasks_' = pending_tasks_ + 1
    /\ pc' = [pc EXCEPT ![c] = "s_submitted"]
    /\ UNCHANGED <<stop_, immediate_stop_, active_tasks_, tasks_completed_,
                   tasks_stolen_, total_tasks_submitted_, global_queue_,
                   local_queues_, counter, joined, taskVars, workerVars,
                   cur, tgt, jidx, st, histVars>>
    /\ UNCHANGED locks

\* submit, lines 178-180
SubmitIncSubmitted(c) ==
    /\ pc[c] = "s_submitted"
    /\ total_tasks_submitted_' = total_tasks_submitted_ + 1
    /\ pc' = [pc EXCEPT ![c] =
                IF prio[cur[c]] = HIGH THEN "s_push_global" ELSE "s_counter"]
    /\ UNCHANGED <<stop_, immediate_stop_, active_tasks_, pending_tasks_,
                   tasks_completed_, tasks_stolen_, global_queue_,
                   local_queues_, counter, joined, taskVars, workerVars,
                   cur, tgt, jidx, st, histVars>>
    /\ UNCHANGED locks

\* submit, lines 181-183 and 191: push and notify_one under global_mutex_
SubmitPushGlobal(c) ==
    /\ pc[c] = "s_push_global"
    /\ Acquirable(GlobalMutex, ClientThread(c))
    /\ locks' = Released(GlobalMutex)
    /\ global_queue_' = global_queue_ \cup {cur[c]}
    /\ wpc' \in NotifyOne(wpc)
    /\ cur' = [cur EXCEPT ![c] = 0]
    /\ pc' = [pc EXCEPT ![c] = "idle"]
    /\ UNCHANGED <<stop_, immediate_stop_, active_tasks_, pending_tasks_,
                   tasks_completed_, tasks_stolen_, total_tasks_submitted_,
                   local_queues_, counter, joined, taskVars, held, scan,
                   tgt, jidx, st, histVars>>

\* submit, lines 185-186: counter++ % workers_.size()
SubmitCounter(c) ==
    /\ pc[c] = "s_counter"
    /\ tgt' = [tgt EXCEPT ![c] = counter[ftype[cur[c]]] % NumWorkers]
    /\ counter' = [counter EXCEPT ![ftype[cur[c]]] = @ + 1]
    /\ pc' = [pc EXCEPT ![c] = "s_push_local"]
    /\ UNCHANGED <<stop_, immediate_stop_, active_tasks_, pending_tasks_,
                   tasks_completed_, tasks_stolen_, total_tasks_submitted_,
                   global_queue_, local_queues_, joined, taskVars, workerVars,
                   cur, jidx, st, histVars>>
    /\ UNCHANGED locks

\* submit, line 187: WorkStealingQueue::push (push_front)
SubmitPushLocal(c) ==
    /\ pc[c] = "s_push_local"
    /\ Acquirable(DequeMutex(tgt[c]), ClientThread(c))
    /\ locks' = Released(DequeMutex(tgt[c]))
    /\ local_queues_' = [local_queues_ EXCEPT ![tgt[c]] = <<cur[c]>> \o @]
    /\ pc' = [pc EXCEPT ![c] = "s_notify"]
    /\ UNCHANGED <<stop_, immediate_stop_, active_tasks_, pending_tasks_,
                   tasks_completed_, tasks_stolen_, total_tasks_submitted_,
                   global_queue_, counter, joined, taskVars, workerVars,
                   cur, tgt, jidx, st, histVars>>

\* submit, lines 188 and 191: notify_one without a lock, then return the handle
SubmitNotify(c) ==
    /\ pc[c] = "s_notify"
    /\ wpc' \in NotifyOne(wpc)
    /\ cur' = [cur EXCEPT ![c] = 0]
    /\ tgt' = [tgt EXCEPT ![c] = 0]
    /\ pc' = [pc EXCEPT ![c] = "idle"]
    /\ UNCHANGED <<poolVars, taskVars, held, scan, jidx, st, histVars>>
    /\ UNCHANGED locks

\* submit<F> on another ThreadPool object of the process, lines 185-186: of
\* this pool's state it touches only the static counter
OtherPoolSubmit(F) ==
    /\ counter[F] < MaxTasks + MaxOther
    /\ counter' = [counter EXCEPT ![F] = @ + 1]
    /\ UNCHANGED <<stop_, immediate_stop_, active_tasks_, pending_tasks_,
                   tasks_completed_, tasks_stolen_, total_tasks_submitted_,
                   global_queue_, local_queues_, joined, taskVars, workerVars,
                   clientVars, histVars>>
    /\ UNCHANGED locks

\* the mutex that the next step of client c locks: global_mutex_ in submit
\* (line 181) and shutdown_immediate (line 156), a mutex_ in push and pop,
\* wait_mutex_ inside condition_variable::wait
ClientWants(c) ==
    CASE pc[c] \in {"s_push_global", "si_drain_g"} -> GlobalMutex
      [] pc[c] = "s_push_local" -> DequeMutex(tgt[c])
      [] pc[c] = "si_drain_l" -> DequeMutex(jidx[c])
      [] pc[c] \in {"wa_pred", "wa_woken"} -> WaitMutex
      [] OTHER -> NoMutex

\* std::mutex::lock returns in client c: the critical section has begun
ClientLock(c) ==
    /\ ClientWants(c) # NoMutex
    /\ locks[ClientWants(c)] = NoThread
    /\ locks' = Acquired(ClientWants(c), ClientThread(c))
    /\ UNCHANGED <<poolVars, taskVars, workerVars, clientVars, histVars>>

\* the caller continues after a call returned or threw
Return(c) ==
    /\ pc[c] \in {"s_threw", "wa_ret", "gs_ret"}
    /\ pc' = [pc EXCEPT ![c] = "idle"]
    /\ st' = [st EXCEPT ![c] = NoStats]
    /\ UNCHANGED <<poolVars, taskVars, workerVars, cur, tgt, jidx, histVars>>
    /\ UNCHANGED locks

\* ======================= ThreadPool::wait_all =======================

\* (seeded fault) wait_all waits for empty queues, not for pending == 0
WaitAllPred_QueuesEmpty == Queued = {}

\* the predicate of wait_all, lines 112-114
WaitAllPred == pending_tasks_ = 0

\* wait_all, line 111: the call begins and acquires wait_mutex_
WaitAllLock(c) ==
    /\ pc[c] = "idle"
    /\ locks[WaitMutex] = NoThread
    /\ locks' = Acquired(WaitMutex, ClientThread(c))
    /\ snap' = [snap EXCEPT ![c] = Returned]
    /\ pc' = [pc EXCEPT ![c] = "wa_pred"]
    /\ UNCHANGED <<poolVars, taskVars, workerVars, cur, tgt, jidx, st,
                   pre, atStop, pollSeen, polled, steals, visited>>

\* wait_all, lines 111-114: lock wait_mutex_ and evaluate the predicate
WaitAllCall(c) ==
    /\ pc[c] \in {"idle", "wa_pred"}
    /\ Acquirable(WaitMutex, ClientThread(c))
    /\ locks' = IF WaitAllPred THEN Released(WaitMutex)
                ELSE Acquired(WaitMutex, ClientThread(c))
    /\ snap' = [snap EXCEPT ![c] = IF pc[c] = "idle" THEN Returned ELSE @]
    /\ pc' = [pc EXCEPT ![c] = IF WaitAllPred THEN "wa_ret" ELSE "wa_towait"]
    /\ UNCHANGED <<poolVars, taskVars, workerVars, cur, tgt, jidx, st,
                   pre, atStop, pollSeen, polled, steals, visited>>

\* condition_variable::wait(lock, pred): after a wake-up, reacquire wait_mutex_
\* and evaluate the predicate again
WaitAllRecheck(c) ==
    /\ pc[c] = "wa_woken"
    /\ Acquirable(WaitMutex, ClientThread(c))
    /\ locks' = IF WaitAllPred THEN Released(WaitMutex)
                ELSE Acquired(WaitMutex, ClientThread(c))
    /\ pc' = [pc EXCEPT ![c] = IF WaitAllPred THEN "wa_ret" ELSE "wa_towait"]
    /\ UNCHANGED <<poolVars, taskVars, workerVars, cur, tgt, jidx, st, histVars>>

\* condition_variable::wait: release wait_mutex_ and block
WaitAllBlock(c) ==
    /\ pc[c] = "wa_towait"
    /\ pc' = [pc EXCEPT ![c] = "wa_waiting"]
    /\ locks' = Released(WaitMutex)
    /\ UNCHANGED <<poolVars, taskVars, workerVars, cur, tgt, jidx, st, histVars>>

\* condition_variable::wait may end spuriously
WaitAllSpurious(c) ==
    /\ pc[c] = "wa_waiting"
    /\ pc' = [pc EXCEPT ![c] = "wa_woken"]
    /\ UNCHANGED <<poolVars, taskVars, workerVars, cur, tgt, jidx, st, histVars>>
    /\ UNCHANGED locks

\* ======================= shutdown =======================

\* the loops over workers_ of lines 133-137 and 149-153: join worker jidx[c]
\* unless it is not joinable; after the last one go on at `after`
JoinNext(c, after) ==
    /\ jidx' = [jidx EXCEPT ![c] = IF @ + 1 = NumWorkers THEN 0 ELSE @ + 1]
    /\ pc' = [pc EXCEPT ![c] = IF jidx[c] + 1 = NumWorkers THEN after ELSE @]

Join(c) ==
    /\ pc[c] \in {"sg_join", "si_join"}
    /\ \/ /\ joined[jidx[c]]
          /\ UNCHANGED joined
       \/ /\ ~joined[jidx[c]]
          /\ wpc[jidx[c]] = "exited"
          /\ joined' = [joined EXCEPT ![jidx[c]] = TRUE]
    /\ JoinNext(c, IF pc[c] = "sg_join" THEN "sg_ret" ELSE "si_drain_g")
    /\ UNCHANGED <<stop_, immediate_stop_, active_tasks_, pending_tasks_,
                   tasks_completed_, tasks_stolen_, total_tasks_submitted_,
                   global_queue_, local_queues_, counter, taskVars, workerVars,
                   cur, tgt, st, histVars>>
    /\ UNCHANGED locks

\* lines 134-135 and 150-151 in two threads at once: both find workers_[i]
\* joinable and both call std::thread::join on it, which std::thread does not
\* allow (a data race on the thread object). Besides the outcome of Join, in
\* which each call returns once the worker has exited, one of the calls
\* throws std::system_error, which leaves the shutdown call
JoinRace(c) ==
    /\ pc[c] \in {"sg_join", "si_join"}
    /\ ~joined[jidx[c]]
    /\ \E d \in Clients \ {c} :
          pc[d] \in {"sg_join", "si_join"} /\ jidx[d] = jidx[c]
    /\ pc' = [pc EXCEPT ![c] = "sd_threw"]
    /\ jidx' = [jidx EXCEPT ![c] = 0]
    /\ UNCHANGED <<poolVars, locks, taskVars, workerVars, cur, tgt, st, histVars>>

\* shutdown_graceful, lines 126-128
SgCheck(c) ==
    /\ pc[c] = "idle"
    /\ snap' = [snap EXCEPT ![c] = Returned]
    /\ pc' = [pc EXCEPT ![c] = IF stop_ \/ immediate_stop_ THEN "sg_noop" ELSE "sg_set"]
    /\ UNCHANGED <<poolVars, taskVars, workerVars, cur, tgt, jidx, st,
                   pre, atStop, pollSeen, polled, steals, visited>>
    /\ UNCHANGED locks

\* shutdown_graceful, line 130
SgSetStop(c) ==
    /\ pc[c] = "sg_set"
    /\ stop_' = TRUE
    /\ pc' = [pc EXCEPT ![c] = "sg_notify"]
    /\ UNCHANGED <<immediate_stop_, active_tasks_, pending_tasks_,
                   tasks_completed_, tasks_stolen_, total_tasks_submitted_,
                   global_queue_, local_queues_, counter, joined, taskVars,
                   workerVars, cur, tgt, jidx, st, histVars>>
    /\ UNCHANGED locks

\* shutdown_graceful, line 131
SgNotify(c) ==
    /\ pc[c] = "sg_notify"
    /\ wpc' = NotifyAll(wpc)
    /\ pc' = [pc EXCEPT ![c] = "sg_join"]
    /\ UNCHANGED <<poolVars, taskVars, held, scan, cur, tgt, jidx, st, histVars>>
    /\ UNCHANGED locks

\* (seeded fault) shutdown_immediate without its test of immediate_stop_
SiCheck_NoGuard(c) ==
    /\ pc[c] = "idle"
    /\ snap' = [snap EXCEPT ![c] = Returned]
    /\ pc' = [pc EXCEPT ![c] = "si_setimm"]
    /\ UNCHANGED <<poolVars, taskVars, workerVars, cur, tgt, jidx, st,
                   pre, atStop, pollSeen, polled, steals, visited>>
    /\ UNCHANGED locks

\* shutdown_immediate, lines 141-143
SiCheck(c) ==
    /\ pc[c] = "idle"
    /\ snap' = [snap EXCEPT ![c] = Returned]
    /\ pc' = [pc EXCEPT ![c] = IF immediate_stop_ THEN "si_noop" ELSE "si_setimm"]
    /\ UNCHANGED <<poolVars, taskVars, workerVars, cur, tgt, jidx, st,
                   pre, atStop, pollSeen, polled, steals, visited>>
    /\ UNCHANGED locks

\* shutdown_immediate, line 145
SiSetImm(c) ==
    /\ pc[c] = "si_setimm"
    /\ immediate_stop_' = TRUE
    /\ atStop' = IF immediate_stop_ THEN atStop ELSE Queued
    /\ pc' = [pc EXCEPT ![c] = "si_setstop"]
    /\ UNCHANGED <<stop_, active_tasks_, pending_tasks_,
                   tasks_completed_, tasks_stolen_, total_tasks_submitted_,
                   global_queue_, local_queues_, counter, joined, taskVars,
                   workerVars, cur, tgt, jidx, st, snap, pre, pollSeen,
                   polled, steals, visited>>
    /\ UNCHANGED locks

\* shutdown_immediate, line 146
SiSetStop(c) ==
    /\ pc[c] = "si_setstop"
    /\ stop_' = TRUE
    /\ pc' = [pc EXCEPT ![c] = "si_notify"]
    /\ UNCHANGED <<immediate_stop_, active_tasks_, pending_tasks_,
                   tasks_completed_, tasks_stolen_, total_tasks_submitted_,
                   global_queue_, local_queues_, counter, joined, taskVars,
                   workerVars, cur, tgt, jidx, st, histVars>>
    /\ UNCHANGED locks

\* shutdown_immediate, line 147
SiNotify(c) ==
    /\ pc[c] = "si_notify"
    /\ wpc' = NotifyAll(wpc)
    /\ pc' = [pc EXCEPT ![c] = "si_join"]
    /\ UNCHANGED <<poolVars, taskVars, held, scan, cur, tgt, jidx, st, histVars>>
    /\ UNCHANGED locks

\* shutdown_immediate, lines 155-160: empty the heap under global_mutex_
SiDrainGlobal(c) ==
    /\ pc[c] = "si_drain_g"
    /\ Acquirable(GlobalMutex, ClientThread(c))
    /\ locks' = Released(GlobalMutex)
    /\ global_queue_' = {}
    /\ pc' = [pc EXCEPT ![c] = "si_drain_l"]
    /\ UNCHANGED <<stop_, immediate_stop_, active_tasks_, pending_tasks_,
                   tasks_completed_, tasks_stolen_, total_tasks_submitted_,
                   local_queues_, counter, joined, taskVars, workerVars,
                   cur, tgt, jidx, st, histVars>>

\* shutdown_immediate, lines 162-166: one WorkStealingQueue::pop of deque jidx[c]
SiDrainLocal(c) ==
    /\ pc[c] = "si_drain_l"
    /\ Acquirable(DequeMutex(jidx[c]), ClientThread(c))
    /\ locks' = Released(DequeMutex(jidx[c]))
    /\ IF local_queues_[jidx[c]] # <<>>
       THEN /\ local_queues_' = [local_queues_ EXCEPT ![jidx[c]] = Tail(@)]
            /\ UNCHANGED <<pc, jidx>>
       ELSE /\ JoinNext(c, "si_reset")
            /\ UNCHANGED local_queues_
    /\ UNCHANGED <<stop_, immediate_stop_, active_tasks_, pending_tasks_,
                   tasks_completed_, tasks_stolen_, total_tasks_submitted_,
                   global_queue_, counter, joined, taskVars, workerVars,
                   cur, tgt, st, histVars>>

\* shutdown_immediate, line 168
SiReset(c) ==
    /\ pc[c] = "si_reset"
    /\ pending_tasks_' = 0
    /\ pc' = [pc EXCEPT ![c] = "si_ret"]
    /\ UNCHANGED <<stop_, immediate_stop_, active_tasks_,
                   tasks_completed_, tasks_stolen_, total_tasks_submitted_,
                   global_queue_, local_queues_, counter, joined, taskVars,
                   workerVars, cur, tgt, jidx, st, histVars>>
    /\ UNCHANGED locks

\* ======================= ThreadPool::get_stats =======================

\* get_stats, line 177
GsLoadCompleted(c) ==
    /\ pc[c] = "idle"
    /\ st' = [st EXCEPT ![c].completed = tasks_completed_]
    /\ snap' = [snap EXCEPT ![c] = {t \in Returned : runs[t] >= 1}]
    /\ pc' = [pc EXCEPT ![c] = "gs_stolen"]
    /\ UNCHANGED <<poolVars, taskVars, workerVars, cur, tgt, jidx,
                   pre, atStop, pollSeen, polled, steals, visited>>
    /\ UNCHANGED locks

\* get_stats, line 178
GsLoadStolen(c) ==
    /\ pc[c] = "gs_stolen"
    /\ st' = [st EXCEPT ![c].stolen = tasks_stolen_]
    /\ pc' = [pc EXCEPT ![c] = "gs_submitted"]
    /\ UNCHANGED <<poolVars, taskVars, workerVars, cur, tgt, jidx, histVars>>
    /\ UNCHANGED locks

\* get_stats, line 179
GsLoadSubmitted(c) ==
    /\ pc[c] = "gs_submitted"
    /\ st' = [st EXCEPT ![c].submitted = total_tasks_submitted_]
    /\ pc' = [pc EXCEPT ![c] = "gs_ret"]
    /\ UNCHANGED <<poolVars, taskVars, workerVars, cur, tgt, jidx, histVars>>
    /\ UNCHANGED locks

\* ---- the steps that continue a call, by operation ----
SubmitSteps(c) ==
    \/ SubmitIncActive(c) \/ SubmitIncPending(c) \/ SubmitIncSubmitted(c)
    \/ SubmitPushGlobal(c) \/ SubmitCounter(c) \/ SubmitPushLocal(c)
    \/ SubmitNotify(c)
WaitAllSteps(c) == WaitAllRecheck(c) \/ WaitAllBlock(c) \/ WaitAllSpurious(c)
SgSteps(c) == SgSetStop(c) \/ SgNotify(c)
SiSteps(c) ==
    \/ SiSetImm(c) \/ SiSetStop(c) \/ SiNotify(c)
    \/ SiDrainGlobal(c) \/ SiDrainLocal(c) \/ SiReset(c)
GsSteps(c) == GsLoadStolen(c) \/ GsLoadSubmitted(c)

\* ---- every client may make every call ----
Next ==
    \/ \E w \in Workers : WorkerStep(w)
    \/ \E c \in Clients, p \in Priorities, F \in Instantiations :
          SubmitCall(c, p, F, FALSE) \/ SubmitCall(c, p, F, TRUE)
    \/ \E F \in Instantiations : OtherPoolSubmit(F)
    \/ \E c \in Clients : SubmitSteps(c) \/ Return(c)
    \/ \E c \in Clients : WaitAllLock(c) \/ WaitAllCall(c) \/ WaitAllSteps(c)
    \/ \E w \in Workers : WorkerLock(w)
    \/ \E c \in Clients : ClientLock(c)
    \/ \E c \in Clients : SgCheck(c) \/ SgSteps(c) \/ Join(c) \/ JoinRace(c)
    \/ \E c \in Clients : SiCheck(c) \/ SiSteps(c)
    \/ \E c \in Clients : GsLoadCompleted(c) \/ GsSteps(c)

Spec == Init /\ [][Next]_vars

\* ---- scenarios: which client makes which calls ----
\* every client submits; client 1 also calls wait_all
NextWait ==
    \/ \E w \in Workers : WorkerStep(w)
    \/ \E c \in Clients, p \in Priorities : SubmitCheck(c, p)
    \/ \E c \in Clients : SubmitSteps(c) \/ Return(c)
    \/ WaitAllCall(1)
    \/ \E c \in Clients : WaitAllSteps(c)

SpecWait == Init /\ [][NextWait]_vars

\* client 1 submits, calls wait_all and get_stats
NextStats ==
    \/ \E w \in Workers : WorkerStep(w)
    \/ \E p \in Priorities : SubmitCheck(1, p)
    \/ \E c \in Clients : SubmitSteps(c) \/ Return(c)
    \/ WaitAllCall(1)
    \/ \E c \in Clients : WaitAllSteps(c)
    \/ GsLoadCompleted(1)
    \/ \E c \in Clients : GsSteps(c)

SpecStats == Init /\ [][NextStats]_vars

\* client 1 submits; every other client makes one shutdown call
NextDown ==
    \/ \E w \in Workers : WorkerStep(w)
    \/ \E p \in Priorities : SubmitCheck(1, p)
    \/ \E c \in Clients : SubmitSteps(c) \/ Return(c)
    \/ \E c \in Clients \ {1} : SgCheck(c) \/ SiCheck(c)
    \/ \E c \in Clients : SgSteps(c) \/ SiSteps(c) \/ Join(c)

SpecDown == Init /\ [][NextDown]_vars

\* client 1 submits and, once its submit calls have returned, another client
\* calls shutdown_graceful (test_shutdown_graceful); every thread that can
\* run keeps being scheduled: a worker's wait_for times out, a mutex that is
\* released again and again is eventually acquired
NextDrain ==
    \/ \E w \in Workers : WorkerStep(w)
    \/ \E p \in Priorities :
          (\A c \in Clients \ {1} : pc[c] = "idle") /\ SubmitCheck(1, p)
    \/ \E c \in Clients : SubmitSteps(c)
    \/ \E c \in Clients \ {1} : pc[1] = "idle" /\ SgCheck(c)
    \/ \E c \in Clients : SgSteps(c) \/ Join(c)

SpecDrain ==
    /\ Init /\ [][NextDrain]_vars
    /\ \A w \in Workers : SF_vars(WorkerStep(w))
    /\ \A c \in Clients : WF_vars(SgSteps(c) \/ Join(c))

\* a running pool: client 1 submits callables that return and callables that
\* throw (test_exception_handling), nobody shuts the pool down; the workers
\* and the submitting thread keep being scheduled
NextRun ==
    \/ \E w \in Workers : WorkerStep(w)
    \/ \E p \in Priorities : SubmitCheck(1, p) \/ SubmitCheckThrowing(1, p)
    \/ \E c \in Clients : SubmitSteps(c)

SpecRun ==
    /\ Init /\ [][NextRun]_vars
    /\ \A w \in Workers : SF_vars(WorkerStep(w))
    /\ \A c \in Clients : SF_vars(SubmitSteps(c))

\* shutdown calls one after the other (the destructor's shutdown_graceful
\* being one of them): client 1 submits; a shutdown call begins only when no
\* other call is in progress
ShutdownPcs == {"sg_ret", "sg_noop", "si_ret", "si_noop"}

NextTwice ==
    \/ \E w \in Workers : WorkerStep(w)
    \/ \E p \in Priorities : SubmitCheck(1, p)
    \/ \E c \in Clients : SubmitSteps(c) \/ Return(c)
    \/ \E c \in Clients :
          /\ \A d \in Clients : pc[d] \in ShutdownPcs \cup {"idle"}
          /\ SgCheck(c) \/ SiCheck(c)
    \/ \E c \in Clients : SgSteps(c) \/ SiSteps(c) \/ Join(c)

SpecTwice == Init /\ [][NextTwice]_vars

\* client 1 submits callables of two types, so that two MEDIUM/LOW envelopes
\* can meet in one deque; another client may call shutdown_immediate
NextOwn ==
    \/ \E w \in Workers : WorkerStep(w)
    \/ \E p \in Priorities : SubmitCheck(1, p)
    \/ SubmitCheckOther(1, MEDIUM)
    \/ \E c \in Clients : SubmitSteps(c) \/ Return(c)
    \/ \E c \in Clients \ {1} : SiCheck(c)
    \/ \E c \in Clients : SiSteps(c) \/ Join(c)

SpecOwn == Init /\ [][NextOwn]_vars

\* a running pool whose callables all return: client 1 submits, the workers
\* and the submitting thread keep being scheduled
NextLive ==
    \/ \E w \in Workers : WorkerStep(w)
    \/ \E p \in Priorities : SubmitCheck(1, p)
    \/ \E c \in Clients : SubmitSteps(c)

SpecLive ==
    /\ Init /\ [][NextLive]_vars
    /\ \A w \in Workers : SF_vars(WorkerStep(w))
    /\ \A c \in Clients : SF_vars(SubmitSteps(c))

\* client 1 submits callables of two types (test_priorities passes three
\* different lambda expressions) while other pools of the process are in use
NextDispatch ==
    \/ \E w \in Workers : WorkerStep(w)
    \/ \E p \in Priorities : SubmitCheck(1, p)
    \/ SubmitCheckOther(1, MEDIUM)
    \/ \E F \in Instantiations : OtherPoolSubmit(F)
    \/ \E c \in Clients : SubmitSteps(c)

SpecDispatch == Init /\ [][NextDispatch]_vars

\* every acquisition of a mutex is a step of its own: client 1 submits to the
\* heap and to the deques, the other clients call wait_all and
\* shutdown_immediate
NextLocks ==
    \/ \E w \in Workers : WorkerStep(w) \/ WorkerLock(w)
    \/ SubmitCheck(1, HIGH) \/ SubmitCheck(1, MEDIUM)
    \/ \E c \in Clients : SubmitSteps(c) \/ ClientLock(c) \/ Return(c)
    \/ \E c \in Clients \ {1} : WaitAllLock(c) \/ SiCheck(c)
    \/ \E c \in Clients : WaitAllCall(c) /\ pc[c] = "wa_pred"
    \/ \E c \in Clients : WaitAllSteps(c) \/ SiSteps(c) \/ Join(c)

SpecLocks == Init /\ [][NextLocks]_vars

\* shutdown calls at the same time: client 1 submits, every client may call
\* shutdown_graceful (as the destructor does) and the other clients may call
\* shutdown_immediate, while the call of another client is in progress
NextJoin ==
    \/ \E w \in Workers : WorkerStep(w)
    \/ SubmitCheck(1, HIGH) \/ SubmitCheck(1, MEDIUM)
    \/ \E c \in Clients : SubmitSteps(c) \/ Return(c)
    \/ \E c \in Clients : SgCheck(c)
    \/ \E c \in Clients \ {1} : SiCheck(c)
    \/ \E c \in Clients : SgSteps(c) \/ SiSteps(c) \/ Join(c) \/ JoinRace(c)

SpecJoin == Init /\ [][NextJoin]_vars

\* client 1 submits and calls wait_all; once it is blocked on wait_cv_ another
\* client calls shutdown_immediate. Every thread that can run keeps being
\* scheduled; a condition_variable::wait is not bound to end without a notify
InWaitAll(c) == pc[c] \in {"wa_towait", "wa_waiting", "wa_woken"}

NextStop ==
    \/ \E w \in Workers : WorkerStep(w)
    \/ SubmitCheck(1, HIGH) \/ SubmitCheck(1, MEDIUM)
    \/ \E c \in Clients : SubmitSteps(c)
    \/ WaitAllCall(1)
    \/ \E c \in Clients : WaitAllSteps(c)
    \/ \E c \in Clients \ {1} : pc[1] = "wa_waiting" /\ SiCheck(c)
    \/ \E c \in Clients : SiSteps(c) \/ Join(c)

SpecStop ==
    /\ Init /\ [][NextStop]_vars
    /\ \A w \in Workers : SF_vars(WorkerStep(w))
    /\ \A c \in Clients : SF_vars(SubmitSteps(c))
    /\ \A c \in Clients : WF_vars(WaitAllRecheck(c) \/ WaitAllBlock(c))
    /\ \A c \in Clients : WF_vars(SiSteps(c) \/ Join(c))

\* ======================= claims =======================

\* C1: graceful shutdown drains every accepted task: when shutdown_graceful
\* returns from its join loop, every task whose submit call has returned its
\* handle has been executed and its completion hook has finished
C1_GracefulDrainsAccepted ==
    [][\A c \in Clients :
         (pc[c] = "sg_join" /\ pc'[c] = "sg_ret" /\ ~immediate_stop_')
            => \A t \in Returned' : Completed(t)']_vars

\* C2: every task whose submit returned before shutdown_graceful was called
\* has been executed exactly once when shutdown_graceful returns, and no task
\* at all was executed twice
C2_GracefulExactlyOnce ==
    \A c \in Clients :
       (pc[c] = "sg_ret" /\ ~immediate_stop_)
          => /\ \A t \in snap[c] : runs[t] = 1 /\ Completed(t)
             /\ \A t \in TaskIds : runs[t] <= 1
             /\ tasks_completed_ >= Cardinality(snap[c])

\* shutdown_graceful has returned after two tasks of different priority
\* classes whose submits had returned before the call
\* C2 (whole): shutdown_graceful, called after the submits have returned,
\* returns, and at its return every submitted task has run exactly once
C2_GracefulReturnsExactlyOnce ==
    /\ []C2_GracefulExactlyOnce
    /\ \A c \in Clients : (pc[c] = "sg_set") ~> (pc[c] = "sg_ret")

C2_Witness ==
    \E c \in Clients :
       /\ pc[c] = "sg_ret"
       /\ \E t, u \in snap[c] : prio[t] = HIGH /\ prio[u] # HIGH

\* C3: a wait_all caller is never stranded: it is never blocked on wait_cv_
\* while pending is 0, nothing is queued, no submit is in progress and no
\* worker still has a completion hook (and so a notify_all) to run
C3_WaitAllNotStranded ==
    \A c \in Clients :
       ~ /\ pc[c] = "wa_waiting"
         /\ pending_tasks_ = 0
         /\ InSubmit = {}
         /\ Queued = {}
         /\ \A w \in Workers : held[w] = 0

\* C4: when wait_all returns (no shutdown_immediate), the user callable of
\* every task whose submit had returned before the call has run, once
C4_WaitAllQuiescence ==
    \A c \in Clients :
       (pc[c] = "wa_ret" /\ ~immediate_stop_)
          => \A t \in snap[c] : runs[t] = 1

\* wait_all returns after a call that found two submitted tasks
C4_Witness ==
    \E c \in Clients : pc[c] = "wa_ret" /\ Cardinality(snap[c]) >= 2

\* C5: completed == submitted whenever pending == 0 and no submit is in
\* progress; in particular when wait_all has returned and no submit was issued
\* since the call
C5_QuiescentCountersAgree ==
    /\ (pending_tasks_ = 0 /\ InSubmit = {})
          => tasks_completed_ = total_tasks_submitted_
    /\ \A c \in Clients :
          (pc[c] = "wa_ret" /\ InSubmit = {} /\ snap[c] = Accepted)
             => tasks_completed_ = total_tasks_submitted_

\* C6: a get_stats call made when the result of every submitted task is ready
\* and no submit is made since reports tasks_completed == n and
\* total_tasks_submitted == n, n the number of submitted tasks
C6_StatsAfterAllResults ==
    \A c \in Clients :
       (pc[c] = "gs_ret" /\ Accepted # {} /\ snap[c] = Accepted)
          => /\ st[c].completed = Len(prio)
             /\ st[c].submitted = Len(prio)

\* C7: no envelope that was queued when immediate_stop_ was set is dequeued
\* or executed by a worker
C7_ImmediateDropsQueued ==
    \A t \in atStop : runs[t] = 0 /\ \A w \in Workers : held[w] # t

\* C8: after shutdown_immediate has returned, pending is 0 and the global heap
\* and every local deque are empty, in every later state
C8_EmptyAfterImmediate ==
    (\E c \in Clients : pc[c] = "si_ret")
       => pending_tasks_ = 0 /\ Queued = {}

\* a shutdown call has returned to its caller
ShutdownReturned ==
    \E d \in Clients : pc[d] \in {"sg_ret", "sg_noop", "si_ret", "si_noop"}

\* C9: a submit call that starts after a shutdown call has returned throws and
\* changes no counter and no queue
C9_SubmitAfterShutdownFails ==
    [][\A c \in Clients :
         (ShutdownReturned /\ pc[c] = "idle" /\ pc'[c] \in {"s_threw", "s_active"})
            => /\ pc'[c] = "s_threw"
               /\ UNCHANGED <<pending_tasks_, active_tasks_, total_tasks_submitted_,
                              tasks_completed_, tasks_stolen_, global_queue_,
                              local_queues_, prio>>]_vars

\* a submit call has thrown and a shutdown call has run to its end, after a
\* task had been accepted
C9_Witness ==
    /\ \E c \in Clients : pc[c] = "s_threw"
    /\ \E d \in Clients : pc[d] \in {"sg_ret", "si_ret"}
    /\ Accepted # {}

\* C10 as claimed: a MEDIUM or LOW task m submitted after a HIGH task h does
\* not begin executing before h; stated for the case that no other task has
\* left its queue so far, so that every worker has been idle all the time and
\* no worker has dequeued another HIGH task
C10_HighBeginsFirst ==
    \A h, m \in Accepted :
       ( /\ prio[h] = HIGH /\ prio[m] # HIGH
         /\ h \in pre[m]
         /\ Begun(m)
         /\ \A t \in Accepted \ {h, m} : ~Dequeued(t) )
       => Begun(h)

\* C10 as amended: a worker takes a MEDIUM or LOW task only in a get_task call
\* whose poll of the global heap found it empty, so every HIGH task that was
\* pushed before that poll has been dequeued before the MEDIUM or LOW task is
\* dequeued
C10_HighBeforeLaterPoll ==
    \A w \in Workers :
       ( \/ wpc[w] \in {"get_local", "try_steal", "stealing", "stolen_inc"}
         \/ (held[w] # 0 /\ prio[held[w]] # HIGH) )
       => \A h \in pollSeen[w] : h \notin global_queue_ /\ Dequeued(h)

\* a worker holds a MEDIUM or LOW task that was submitted after a HIGH task,
\* and the HIGH task had been pushed before the worker polled the heap
C10_Witness ==
    \E w \in Workers :
       /\ held[w] # 0 /\ prio[held[w]] # HIGH
       /\ \E h \in pollSeen[w] : h \in pre[held[w]]

\* the hooks that have passed tasks_completed_++ (line 172)
HooksCounted ==
    {t \in Accepted : Completed(t) \/ \E w \in Workers :
                                         held[w] = t /\ wpc[w] = "notify_wait"}

C11_Bookkeeping ==
    /\ \A w \in Workers : wpc[w] # "exited"
    /\ \A t \in TaskIds :
          /\ runs[t] <= 1
          /\ result[t] = IF runs[t] = 0 THEN "none"
                         ELSE IF t \in raises THEN "exception" ELSE "value"
    /\ tasks_completed_ = Cardinality(HooksCounted)
    /\ (InSubmit = {} /\ Queued = {} /\ \A w \in Workers : held[w] = 0)
          => /\ active_tasks_ = 0 /\ pending_tasks_ = 0
             /\ tasks_completed_ = Len(prio)

\* C11: a callable that throws delivers its exception through its own handle
\* only; no worker exits; the hook of a throwing task does the bookkeeping of
\* a successful one (completed counts every finished hook, active and pending
\* are back at 0 when nothing is in flight); and a task submitted after a
\* throwing task has completed is executed and yields its value
C11_FailureIsolated ==
    /\ []C11_Bookkeeping
    /\ \A t \in TaskIds :
          (t \in Returned /\ t \notin raises
              /\ \E f \in pre[t] \cap raises : Completed(f))
            ~> (Completed(t) /\ result[t] = "value")

\* a task returned its value after a task submitted and completed before it
\* had thrown
C11_Witness ==
    \E f \in raises, t \in Accepted \ raises :
        /\ f \in pre[t] /\ Completed(f) /\ result[f] = "exception"
        /\ Completed(t) /\ result[t] = "value"

\* C12: in every reachable state stolen <= completed
C12_StolenAtMostCompleted == tasks_stolen_ <= tasks_completed_

\* the counter of steals never decreases
C12_StolenMonotonic == [][tasks_stolen_' >= tasks_stolen_]_vars

\* C13: a shutdown_graceful call that begins after a shutdown call (of either
\* kind) has returned, and a shutdown_immediate call that begins after a
\* shutdown_immediate call has returned, returns at once and changes no flag,
\* counter, queue or worker
C13_ShutdownIdempotent ==
    [][\A c \in Clients :
         /\ (/\ pc[c] = "idle" /\ pc'[c] \in {"sg_set", "sg_noop"}
             /\ \E d \in Clients : pc[d] \in {"sg_ret", "si_ret"})
               => pc'[c] = "sg_noop" /\ UNCHANGED <<poolVars, workerVars>>
         /\ (/\ pc[c] = "idle" /\ pc'[c] \in {"si_setimm", "si_noop"}
             /\ \E d \in Clients : pc[d] = "si_ret")
               => pc'[c] = "si_noop" /\ UNCHANGED <<poolVars, workerVars>>]_vars

\* after a shutdown_immediate call has returned a second shutdown_immediate
\* call has returned as well, with a task accepted by the pool before
C13_Witness ==
    /\ \E c, d \in Clients : pc[c] = "si_ret" /\ pc[d] = "si_noop"
    /\ Accepted # {}

\* shutdown_graceful has returned at once after a shutdown call had returned
C13_WitnessGraceful ==
    \E c, d \in Clients : pc[c] \in {"sg_ret", "si_ret"} /\ pc[d] = "sg_noop"

\* the number of places an envelope is in: with the submitter before the push,
\* in the heap, in a deque (counting repetitions), in the hands of a worker,
\* or completed
WithSubmitter(t) ==
    \E c \in Clients : cur[c] = t /\ pc[c] \in
        {"s_active", "s_pending", "s_submitted", "s_push_global", "s_counter",
         "s_push_local"}
Occurrences(q, t) == Cardinality({i \in DOMAIN q : q[i] = t})
RECURSIVE SumOver(_, _)
SumOver(f, S) ==
    IF S = {} THEN 0
    ELSE LET x == CHOOSE y \in S : TRUE IN f[x] + SumOver(f, S \ {x})
Places(t) ==
    (IF WithSubmitter(t) THEN 1 ELSE 0)
    + (IF t \in global_queue_ THEN 1 ELSE 0)
    + SumOver([w \in Workers |-> Occurrences(local_queues_[w], t)], Workers)
    + Cardinality({w \in Workers : held[w] = t})
    + (IF Completed(t) THEN 1 ELSE 0)

\* C14: every accepted envelope is in exactly one place, or in none after
\* shutdown_immediate has emptied the queues without it having run; no
\* envelope is executed twice
C14_SingleOwnership ==
    \A t \in Accepted :
       /\ runs[t] <= 1
       /\ \/ Places(t) = 1
          \/ /\ Places(t) = 0 /\ runs[t] = 0
             /\ \E c \in Clients : pc[c] \in {"si_drain_l", "si_reset", "si_ret"}

\* two envelopes that were pushed to the same deque are in the hands of two
\* workers, one of them by a steal
C14_Witness ==
    \E w, v \in Workers :
       /\ w # v /\ held[w] # 0 /\ held[v] # 0
       /\ prio[held[w]] # HIGH /\ prio[held[v]] # HIGH
       /\ ftype[held[w]] # ftype[held[v]]
       /\ wpc[v] = "stolen_inc"

\* shutdown_immediate has dropped an envelope
C14_WitnessDropped ==
    \E t \in Accepted : Places(t) = 0

\* the envelopes a worker has dequeued and whose hook has not yet run
\* pending_tasks_-- (line 171)
BeforeDecPending ==
    {t \in Accepted : \E w \in Workers :
        held[w] = t /\ wpc[w] \in {"stolen_inc", "exec", "dec_active", "dec_pending"}}

\* C15: without shutdown_immediate, pending is at least the number of queued
\* envelopes plus the number of dequeued envelopes whose hook has not yet
\* decremented it; so it is not 0 while a task is queued or executing, and
\* it never wraps below 0
C15_PendingCoversInFlight ==
    ~immediate_stop_ =>
       /\ pending_tasks_ >= Cardinality(Queued) + Cardinality(BeforeDecPending)
       /\ pending_tasks_ >= 0
       /\ pending_tasks_ = 0 => Queued = {} /\ BeforeDecPending = {}

\* one envelope is queued while the hook of another has not yet decremented pending
C15_Witness ==
    /\ ~immediate_stop_
    /\ Queued # {}
    /\ \E w \in Workers : held[w] # 0 /\ wpc[w] = "dec_active"
    /\ pending_tasks_ = Cardinality(Queued) + Cardinality(BeforeDecPending)

\* C16: in a running pool, with fair scheduling, every envelope that submit
\* has pushed is eventually dequeued and executed
C16_NoStarvation ==
    \A t \in TaskIds : (t \in Queued) ~> (runs[t] >= 1)

\* submit has returned and its notify_one reached no parked worker: the
\* envelope is queued, one worker has parked since without being woken and the
\* other workers are busy with other envelopes
C16_Witness ==
    /\ Queued # {} /\ InSubmit = {}
    /\ \E w \in Workers :
          /\ wpc[w] = "waiting"
          /\ \A v \in Workers \ {w} :
                held[v] # 0 /\ wpc[v] \in {"exec", "dec_active", "dec_pending"}

\* the MEDIUM/LOW submissions this pool accepted before t
EarlierLocal(t) == {u \in Accepted : u < t /\ prio[u] # HIGH}

\* C17: the deque chosen for a MEDIUM/LOW submission is (j mod N), j the
\* number of MEDIUM/LOW submissions this pool accepted before
C17_RoundRobinPerPool ==
    \A c \in Clients :
       pc[c] = "s_push_local"
          => tgt[c] = Cardinality(EarlierLocal(cur[c])) % NumWorkers

\* C18: a worker that polls the heap and finds it non-empty takes a HIGH
\* envelope from it and touches no deque; a worker takes an envelope from its
\* own deque only in a get_task call that found the heap empty, and steals one
\* only in a call that found the heap and then its own deque empty
C18_FixedSourceOrder ==
    [][\A w \in Workers :
         /\ (wpc[w] = "get_global" /\ wpc'[w] # "get_global" /\ global_queue_ # {})
               => /\ held'[w] \in global_queue_ /\ prio[held'[w]] = HIGH
                  /\ wpc'[w] = "exec"
                  /\ UNCHANGED local_queues_
         /\ (held[w] = 0 /\ held'[w] # 0 /\ held'[w] \notin global_queue_)
               => /\ polled[w].heap
                  /\ held'[w] \in InLocal(w) \/ polled[w].own]_vars

\* a worker has stolen an envelope, and a HIGH envelope pushed after the
\* worker's poll is in the heap
C18_Witness ==
    \E w \in Workers : wpc[w] = "stolen_inc" /\ global_queue_ # {}

\* a worker has taken a HIGH envelope while its own deque holds work
C18_WitnessHeapFirst ==
    \E w \in Workers :
       held[w] # 0 /\ prio[held[w]] = HIGH /\ wpc[w] = "exec" /\ local_queues_[w] # <<>>

\* the scan of try_steal for n workers, thief w and start index start visits
\* every deque but w's exactly once
ScanIsPermutation(n, w, start) ==
    LET order == ScanOrder(n, w, start, 0)
    IN  /\ Len(order) = n - 1
        /\ SeqToSet(order) = (0 .. (n - 1)) \ {w}

\* C19: for every start index the scan of try_steal visits every deque but
\* the thief's exactly once; a successful steal removes exactly the envelope
\* at the far end of a deque of another worker, the deques visited before
\* having been empty; try_steal fails only after it has found every other
\* deque empty; and the stolen counter, once each thief has done its
\* increment, is the number of successful steals
C19_StealProtocol ==
    /\ [](\A n \in 1 .. (NumWorkers + 1) : \A w, start \in 0 .. (n - 1) :
              ScanIsPermutation(n, w, start))
    /\ [](tasks_stolen_ + Cardinality({w \in Workers : wpc[w] = "stolen_inc"})
              = steals)
    /\ [][\A w \in Workers :
            /\ (wpc[w] = "stealing" /\ held'[w] # held[w])
                  => \E v \in Workers \ {w} :
                        /\ v \notin visited[w]
                        /\ visited[w] \cup {v} \cup SeqToSet(scan[w])
                              = Workers \ {w}
                        /\ local_queues_[v] # <<>>
                        /\ held'[w] = local_queues_[v][Len(local_queues_[v])]
                        /\ local_queues_' = [local_queues_ EXCEPT ![v] =
                                               SubSeq(@, 1, Len(@) - 1)]
            /\ (wpc[w] \in {"try_steal", "stealing"} /\ wpc'[w] = "chk_imm1")
                  => /\ held'[w] = 0
                     /\ UNCHANGED local_queues_
                     /\ \/ NumWorkers = 1
                        \/ visited[w] \cup {Head(scan[w])} = Workers \ {w}]_vars

\* a thief has taken the older of two envelopes of a deque: the newer one is
\* still there
C19_Witness ==
    \E w \in Workers : \E v \in Workers \ {w} :
       /\ wpc[w] = "stolen_inc"
       /\ local_queues_[v] # <<>>
       /\ \A i \in DOMAIN local_queues_[v] : local_queues_[v][i] > held[w]
       /\ tasks_stolen_ < steals

\* C20: active == pending whenever no submit call is between its two
\* increments (lines 176-177) and no hook is between its two decrements
\* (lines 170-171)
C20_ActiveEqualsPending ==
    (/\ \A c \in Clients : pc[c] # "s_pending"
     /\ \A w \in Workers : wpc[w] # "dec_pending")
       => active_tasks_ = pending_tasks_

\* a worker is executing an envelope: task() of worker_thread line 37
ExecutingEnvelope(w) ==
    wpc[w] \in {"exec", "dec_active", "dec_pending", "inc_completed", "notify_wait"}
\* the mutex a thread is about to lock
Wants(t) == IF t[1] = "worker" THEN WorkerWants(t[2]) ELSE ClientWants(t[2])
\* the thread waits in std::mutex::lock for a mutex another thread holds
Blocked(t) == Wants(t) # NoMutex /\ locks[Wants(t)] \notin {NoThread, t}
\* a set of threads each of which waits for a mutex held by one of the set
Deadlocked ==
    \E S \in (SUBSET Threads) \ {{}} :
       \A t \in S : Blocked(t) /\ locks[Wants(t)] \in S

\* C21: no thread holds more than one of the pool's mutexes at a time, a
\* thread that is about to lock a mutex holds no other, no worker holds a
\* mutex while it executes an envelope, and no set of threads is deadlocked
\* on the mutexes
C21_LockDiscipline ==
    /\ \A t \in Threads :
          /\ Cardinality(HeldMutexes(t)) <= 1
          /\ Wants(t) # NoMutex => HeldMutexes(t) \subseteq {Wants(t)}
    /\ \A w \in Workers :
          ExecutingEnvelope(w) => HeldMutexes(WorkerThread(w)) = {}
    /\ ~Deadlocked

\* a thief holds the mutex_ of its victim's deque while the submitter waits
\* for it, another thread holds global_mutex_ or wait_mutex_
C21_Witness ==
    \E w \in Workers : \E v \in Workers \ {w} :
       /\ locks[DequeMutex(v)] = WorkerThread(w)
       /\ \E c \in Clients : Blocked(ClientThread(c))
                                /\ Wants(ClientThread(c)) = DequeMutex(v)
       /\ \E t \in Threads \ {WorkerThread(w)} : HeldMutexes(t) # {}

\* C22: whenever a call of shutdown_graceful has returned, also one made
\* while the shutdown call of another thread is joining the workers, every
\* worker has exited and no task is executing or queued
C22_GracefulReturnMeansStopped ==
    \A c \in Clients :
       pc[c] \in {"sg_ret", "sg_noop"}
          => /\ \A w \in Workers : wpc[w] = "exited" /\ held[w] = 0
             /\ Queued = {}

\* the same for the calls that went through the join loop only
C22_JoinedReturnMeansExited ==
    \A c \in Clients :
       pc[c] = "sg_ret" => \A w \in Workers : wpc[w] = "exited" /\ held[w] = 0

\* a second shutdown_graceful call has returned while the first call is in
\* its join loop and a worker is executing a task
C22_EarlyReturn ==
    \E c \in Clients : \E d \in Clients \ {c} :
       /\ pc[c] = "sg_noop" /\ pc[d] = "sg_join"
       /\ \E w \in Workers : ExecutingEnvelope(w)

\* C23: once shutdown_immediate has returned, every wait_all call that was in
\* progress returns
C23_WaiterReleased ==
    \A c \in Clients :
       (InWaitAll(c) /\ \E d \in Clients : pc[d] = "si_ret")
          ~> (pc[c] = "wa_ret")

\* the same as a property of states: after the return of shutdown_immediate
\* no wait_all caller is blocked on wait_cv_ with every worker gone and no
\* submit call in progress, that is, with no thread left to notify wait_cv_
C23_WaiterNotStranded ==
    \A c \in Clients :
       ~ /\ pc[c] = "wa_waiting"
         /\ \E d \in Clients : pc[d] = "si_ret"
         /\ \A w \in Workers : wpc[w] = "exited"
         /\ InSubmit = {}
====
